---- MODULE Spec2Model ----
(***************************************************************************)
(* Model of the snippets of the js-notes repository.                       *)
(*                                                                         *)
(* The repository holds notes with short JavaScript snippets; it has no    *)
(* parser, executor, comparator or reporter.  This module models the       *)
(* snippets themselves, as the JavaScript run-time runs them: the          *)
(* statements of the script run to completion in order, then the timers    *)
(* the script registered fire in order of their due time.                  *)
(*                                                                         *)
(* Each snippet has its own variables, its own actions and its own         *)
(* specification; Init is the state before any snippet has run.            *)
(***************************************************************************)
EXTENDS Integers, Sequences, FiniteSets

(***************************************************************************)
(* Bounds                                                                  *)
(***************************************************************************)

\* How many times the interval callback is followed (the interval itself
\* never ends: nothing in the snippet calls clearInterval).
MaxTicks == 6

\* Period of the interval registered by Counter, in milliseconds.
CounterPeriod == 1000

\* Longest transactions array passed to processTransactions.
MaxTx == 4

\* next() calls followed after processTransactions has returned, and after
\* a custom iterator has first reported done.
MaxNextAfterDone == 1

\* Generators created from generateOrderId, and next() calls followed on each.
MaxGenerators == 2
MaxOrders == 11

\* Longest array, and largest number in it, passed to the deduplications.
MaxLen == 4
MaxValue == 3

\* Iterators created from customIterable and catalog together.
MaxIterators == 2

\* Distances passed to getPackageCost: -MaxBelowZero .. MaxDistance.
MaxBelowZero == 20
MaxDistance == 3200

\* Items added to one DataStorage (and the longest array a caller makes of
\* a returned one), and getItems calls followed.
MaxItems == 2
MaxGetItems == 2

(***************************************************************************)
(* State                                                                   *)
(***************************************************************************)
(***************************************************************************)
(* JavaScript values: numbers (NaN among them), strings and undefined.     *)
(***************************************************************************)
Num(k) == [type |-> "number", nan |-> FALSE, n |-> k, s |-> ""]
NaN == [type |-> "number", nan |-> TRUE, n |-> 0, s |-> ""]
Str(x) == [type |-> "string", nan |-> FALSE, n |-> 0, s |-> x]
Undef == [type |-> "undefined", nan |-> FALSE, n |-> 0, s |-> ""]

\* add / Counter snippet, src/es6-features-guide.md lines 44-61
VARIABLES
    pc,       \* position of the script: "logAdd", "newCounter", "idle"
    now,      \* time of the event loop, in milliseconds
    count,    \* counter.count; -1 before the constructor has run
    timers,   \* pending timers: set of [due |-> ms, period |-> ms]
    console   \* the lines written by console.log, in order

\* processTransactions, src/unnamed/part_000 lines 298-327
VARIABLES
    transactions,  \* the array the generator was created with
    balance,       \* let balance
    txPos,         \* how many elements the for...of loop has taken
    txState,       \* "none" (not created), "suspended", "done"
    txOut          \* the values of the next() calls so far, in order

\* generateOrderId, src/unnamed/part_000 lines 281-293
VARIABLES
    generators     \* per generator: state ("none", "suspended"), id, and the
                   \* results of its next() calls so far

\* productProxy, src/unnamed/part_000 lines 405-426
VARIABLES
    product,       \* the proxy's target: property name -> value
    lastSet        \* the last assignment made through the proxy and whether
                   \* the trap threw

\* Promise.allSettled snippet, src/unnamed/part_000 lines 728-735
VARIABLES
    asPc,          \* position of the script: "new1", "new2", "new3",
                   \* "allSettled", "idle"
    asNow,         \* time of the event loop, in milliseconds
    asTimers,      \* pending timers: set of [due, seq, promise]
    promises,      \* fetchProduct1..3: [state, outcome, delay, value]
    settled,       \* the promise of Promise.allSettled: [state, remaining, results]
    microtasks,    \* queue of promise reaction jobs
    asConsole      \* what console.log wrote and when: sequence of [time, results]

\* deduplication, src/unnamed/part_000 lines 76-85 and
\* src/es6-features-guide.md lines 711-714
VARIABLES
    numbers,              \* the input array
    nonduplicateNumber,   \* result of the reduce-based deduplication
    uniqueArray,          \* result of [...new Set(numbers)]
    again,                \* the reduce-based deduplication of nonduplicateNumber
    dedupDone             \* which of "input", "reduce", "set", "again" have run

\* custom iterators, src/es6-features-guide.md lines 506-525 and
\* src/unnamed/part_000 lines 334-359
VARIABLES
    backing,       \* customIterable.data and catalog.products
    iterators      \* per iterator: state ("none", "live"), the iterable it
                   \* is of, index, and the results of its next() calls

\* getPackageCost, src/example.js lines 1-12 and 48
VARIABLES
    distance,      \* the argument of the last call
    packageCost,   \* what the last call returned
    costCalls      \* how many calls were made; a run makes one

\* DataStorage, src/typescript-notes.md lines 504-518
VARIABLES
    heap,          \* the arrays that exist: reference -> elements; reference
                   \* 0 is the array of this.data
    getItemsCalls, \* how many getItems calls were made
    returned,      \* the references getItems has returned to the caller
    lastItems,     \* what the last getItems call returned, as elements
    changed,       \* the returned references whose array the caller changed
    changedAtGet,  \* the value of `changed` at the last getItems call
    addedItems     \* the arguments of the addItem calls so far, in order

counterVars == <<pc, now, count, timers, console>>
txVars == <<transactions, balance, txPos, txState, txOut>>

ordVars == <<generators>>

proxyVars == <<product, lastSet>>

settledVars == <<asPc, asNow, asTimers, promises, settled, microtasks, asConsole>>

dedupVars == <<numbers, nonduplicateNumber, uniqueArray, again, dedupDone>>

iterVars == <<backing, iterators>>

costVars == <<distance, packageCost, costCalls>>

storageVars == <<heap, getItemsCalls, returned, lastItems, changed, changedAtGet, addedItems>>

vars == <<counterVars, txVars, ordVars, proxyVars, settledVars, dedupVars, iterVars,
          costVars, storageVars>>

\* What the actions of one snippet leave alone.
notCounter == <<txVars, ordVars, proxyVars, settledVars, dedupVars, iterVars, costVars, storageVars>>
notTx == <<counterVars, ordVars, proxyVars, settledVars, dedupVars, iterVars, costVars, storageVars>>
notOrd == <<counterVars, txVars, proxyVars, settledVars, dedupVars, iterVars, costVars, storageVars>>
notSettled == <<counterVars, txVars, ordVars, proxyVars, dedupVars, iterVars, costVars, storageVars>>
notDedup == <<counterVars, txVars, ordVars, proxyVars, settledVars, iterVars, costVars, storageVars>>
notIter == <<counterVars, txVars, ordVars, proxyVars, settledVars, dedupVars, costVars, storageVars>>
notCost == <<counterVars, txVars, ordVars, proxyVars, settledVars, dedupVars, iterVars, storageVars>>
notStorage == <<counterVars, txVars, ordVars, proxyVars, settledVars, dedupVars, iterVars, costVars>>
notProxy == <<counterVars, txVars, ordVars, settledVars, dedupVars, iterVars, costVars, storageVars>>

\* const add = (a, b) => a + b;
add(a, b) == a + b

Init ==
    /\ pc = "logAdd"
    /\ now = 0
    /\ count = -1
    /\ timers = {}
    /\ console = <<>>
    /\ transactions = <<>>
    /\ balance = 0
    /\ txPos = 0
    /\ txState = "none"
    /\ txOut = <<>>
    /\ product = [p \in {"name", "price", "stock"} |->
                    CASE p = "name" -> Str("Laptop")
                      [] p = "price" -> Num(1000)
                      [] OTHER -> Undef]
    /\ lastSet = [property |-> "", value |-> Undef, threw |-> FALSE]
    /\ asPc = "new1"
    /\ asNow = 0
    /\ asTimers = {}
    /\ promises = [i \in 1..3 |-> [state |-> "none", outcome |-> "", delay |-> 0, value |-> ""]]
    /\ settled = [state |-> "none", remaining |-> 3,
                  results |-> [i \in 1..3 |-> [status |-> "", value |-> ""]]]
    /\ microtasks = <<>>
    /\ asConsole = <<>>
    /\ numbers = <<>>
    /\ nonduplicateNumber = <<>>
    /\ uniqueArray = <<>>
    /\ again = <<>>
    /\ dedupDone = {}
    /\ backing = [customIterable |-> <<>>, catalog |-> <<>>]
    /\ iterators = [it \in 1..MaxIterators |->
                      [state |-> "none", of |-> "", index |-> 0, out |-> <<>>]]
    /\ distance = 0
    /\ packageCost = 0
    /\ costCalls = 0
    /\ heap = [ref \in 0..MaxGetItems |-> <<>>]
    /\ getItemsCalls = 0
    /\ returned = {}
    /\ lastItems = <<>>
    /\ changed = {}
    /\ changedAtGet = {}
    /\ addedItems = <<>>
    /\ generators = [g \in 1..MaxGenerators |-> [state |-> "none", id |-> 0, out |-> <<>>]]

\* console.log(add(2, 3));
LogAdd ==
    /\ pc = "logAdd"
    /\ console' = Append(console, add(2, 3))
    /\ pc' = "newCounter"
    /\ UNCHANGED <<now, count, timers>>
    /\ UNCHANGED notCounter

\* const counter = new Counter();  sets count to 0 and registers the interval
NewCounter ==
    /\ pc = "newCounter"
    /\ count' = 0
    /\ timers' = timers \cup {[due |-> now + CounterPeriod, period |-> CounterPeriod]}
    /\ pc' = "idle"
    /\ UNCHANGED <<now, console>>
    /\ UNCHANGED notCounter

\* The interval callback: this.count++; console.log(this.count);
\* It runs when the script has finished and the timer is the earliest due;
\* an interval timer is registered again one period later.
IntervalTick ==
    /\ pc = "idle"
    /\ count < MaxTicks
    /\ \E t \in timers :
        /\ \A u \in timers : t.due <= u.due
        /\ now' = t.due
        /\ count' = count + 1
        /\ console' = Append(console, count')
        /\ timers' = (timers \ {t}) \cup {[due |-> t.due + t.period, period |-> t.period]}
    /\ UNCHANGED pc
    /\ UNCHANGED notCounter

Next == LogAdd \/ NewCounter \/ IntervalTick

Spec == Init /\ [][Next]_vars

\* Type correctness of the state.
TypeOK ==
    /\ pc \in {"logAdd", "newCounter", "idle"}
    /\ now \in Nat
    /\ count \in -1 .. MaxTicks
    /\ \A t \in timers : t.due \in Nat /\ t.period = CounterPeriod
    /\ console \in Seq(Nat)

(***************************************************************************)
(* processTransactions, src/unnamed/part_000 lines 298-327                 *)
(*                                                                         *)
(* A message is a template literal; it is modelled as a record of its      *)
(* fixed text and the numbers put into it.                                 *)
(***************************************************************************)
\* const transactions = [...] of lines 298-303
DocumentedTransactions ==
    << [type |-> "deposit", amount |-> 100],
       [type |-> "withdraw", amount |-> 50],
       [type |-> "deposit", amount |-> 200],
       [type |-> "withdraw", amount |-> 30] >>

\* The transactions the model passes besides the documented ones: both
\* types the generator knows, with non-negative amounts, and one it does not.
TxChoices ==
    [type : {"deposit", "withdraw"}, amount : {0, 50, 100}]
        \cup {[type |-> "refund", amount |-> 50]}

TxLists ==
    {DocumentedTransactions} \cup UNION {[1..n -> TxChoices] : n \in 0..MaxTx}

\* balance += transaction.amount
depositAssign(bal, amount) == amount
deposit(bal, amount) == bal + amount

\* balance >= transaction.amount
canWithdrawAlways(bal, amount) == TRUE
canWithdraw(bal, amount) == bal >= amount

\* balance -= transaction.amount
withdraw(bal, amount) == bal - amount

\* The generator's body from the loop position `pos` with balance `bal`, up
\* to its next yield or its return: the position and balance it stops with
\* and the result next() gives.
RECURSIVE resume(_, _, _)
resume(ts, pos, bal) ==
    IF pos >= Len(ts)
    THEN [pos |-> pos, balance |-> bal, done |-> TRUE,
          value |-> [text |-> "All transactions processed, final balance",
                     amount |-> 0, balance |-> bal]]
    ELSE LET transaction == ts[pos + 1] IN
         IF transaction.type = "deposit"
         THEN LET b == deposit(bal, transaction.amount) IN
              [pos |-> pos + 1, balance |-> b, done |-> FALSE,
               value |-> [text |-> "Deposited", amount |-> transaction.amount, balance |-> b]]
         ELSE IF transaction.type = "withdraw"
         THEN IF canWithdraw(bal, transaction.amount)
              THEN LET b == withdraw(bal, transaction.amount) IN
                   [pos |-> pos + 1, balance |-> b, done |-> FALSE,
                    value |-> [text |-> "Withdrew", amount |-> transaction.amount, balance |-> b]]
              ELSE [pos |-> pos + 1, balance |-> bal, done |-> FALSE,
                    value |-> [text |-> "Insufficient funds for withdrawal",
                               amount |-> transaction.amount, balance |-> bal]]
         ELSE resume(ts, pos + 1, bal)

\* The value of next() on a generator that has returned.
Undefined == [text |-> "undefined", amount |-> 0, balance |-> 0]

\* const transactionProcessor = processTransactions(transactions);
\* creates the generator; its body has not started.
processTransactions ==
    /\ txState = "none"
    /\ \E ts \in TxLists : transactions' = ts
    /\ txState' = "suspended"
    /\ UNCHANGED <<balance, txPos, txOut>>
    /\ UNCHANGED notTx

\* transactionProcessor.next().value
TxNext ==
    /\ txState \in {"suspended", "done"}
    /\ Len(txOut) < Len(transactions) + 1 + MaxNextAfterDone
    /\ IF txState = "suspended"
       THEN LET r == resume(transactions, txPos, balance) IN
            /\ txPos' = r.pos
            /\ balance' = r.balance
            /\ txOut' = Append(txOut, r.value)
            /\ txState' = IF r.done THEN "done" ELSE "suspended"
       ELSE /\ txOut' = Append(txOut, Undefined)
            /\ UNCHANGED <<txPos, balance, txState>>
    /\ UNCHANGED transactions
    /\ UNCHANGED notTx

NextTx == processTransactions \/ TxNext

SpecTx == Init /\ [][NextTx]_vars

(***************************************************************************)
(* Claims about processTransactions                                        *)
(***************************************************************************)
IsMoney(transaction) == transaction.type \in {"deposit", "withdraw"}
IsYielded(v) == v.text \in {"Deposited", "Withdrew", "Insufficient funds for withdrawal"}
IsDeposit(transaction) == transaction.type = "deposit"
IsWithdrew(v) == v.text = "Withdrew"
IsFinal(v) == v.text = "All transactions processed, final balance"

RECURSIVE SumAmounts(_)
SumAmounts(s) == IF s = <<>> THEN 0 ELSE s[1].amount + SumAmounts(Tail(s))

\* The deposit and withdraw transactions of the array, in list order.
MoneyTransactions == SelectSeq(transactions, IsMoney)
\* The messages yielded so far.
Yielded == SelectSeq(txOut, IsYielded)

\* C22: the next() calls give one message per deposit or withdraw
\* transaction, in list order, and then the final-balance message; the
\* documented list gives the balances 100, 50, 250, 220 and the final balance
\* 220; the final balance is the sum of the deposits minus the sum of the
\* withdrawals that were honoured.
C22_MessagesAndFinalBalance ==
    /\ Len(Yielded) <= Len(MoneyTransactions)
    /\ \A i \in 1..Len(Yielded) :
        /\ txOut[i] = Yielded[i]
        /\ Yielded[i].amount = MoneyTransactions[i].amount
        /\ (Yielded[i].text = "Deposited") <=> (MoneyTransactions[i].type = "deposit")
    /\ txState = "done" =>
        /\ Len(Yielded) = Len(MoneyTransactions)
        /\ IsFinal(txOut[Len(Yielded) + 1])
        /\ txOut[Len(Yielded) + 1].balance =
              SumAmounts(SelectSeq(transactions, IsDeposit))
                - SumAmounts(SelectSeq(txOut, IsWithdrew))
    /\ (transactions = DocumentedTransactions /\ txState = "done") =>
        /\ [i \in 1..5 |-> txOut[i].balance] = <<100, 50, 250, 220, 220>>
        /\ [i \in 1..5 |-> txOut[i].text] =
              <<"Deposited", "Withdrew", "Deposited", "Withdrew",
                "All transactions processed, final balance">>

\* The documented list has been processed by five next() calls.
C22_Witness ==
    /\ transactions = DocumentedTransactions
    /\ txState = "done"
    /\ Len(txOut) = 5

\* What one next() call on the suspended generator did, read from the state
\* before and after it: the transactions it passed without yielding are of
\* an unknown type and leave the balance as it was; the one it yielded for is
\* a deposit or a withdraw; a withdraw of more than the balance yields the
\* 'Insufficient funds' message and leaves the balance as it was.
TxStepOK ==
    (txState = "suspended" /\ txOut' # txOut) =>
        LET v == txOut'[Len(txOut')]
            lastPassed == IF IsYielded(v) THEN txPos' - 1 ELSE txPos'
        IN  /\ \A p \in (txPos + 1)..lastPassed : ~IsMoney(transactions[p])
            /\ ~IsYielded(v) => (balance' = balance /\ txPos' = Len(transactions))
            /\ IsYielded(v) =>
                LET transaction == transactions[txPos'] IN
                /\ IsMoney(transaction)
                /\ v.balance = balance'
                /\ (transaction.type = "withdraw" /\ transaction.amount > balance) =>
                      /\ v.text = "Insufficient funds for withdrawal"
                      /\ balance' = balance
                /\ (transaction.type = "withdraw" /\ transaction.amount <= balance) =>
                      balance' = balance - transaction.amount
                /\ transaction.type = "deposit" =>
                      balance' = balance + transaction.amount

\* C23: with non-negative amounts the balance is never negative, at no
\* yield; a withdraw of more than the balance yields 'Insufficient funds' and
\* leaves the balance unchanged; a transaction of another type yields nothing
\* and leaves the balance unchanged.
C23_BalanceNeverNegative ==
    /\ [](balance >= 0 /\ \A i \in 1..Len(txOut) : txOut[i].balance >= 0)
    /\ [][TxStepOK]_vars

\* A withdraw was refused and a transaction of an unknown type was passed.
C23_Witness ==
    /\ \E i \in 1..Len(txOut) : txOut[i].text = "Insufficient funds for withdrawal"
    /\ \E p \in 1..txPos : transactions[p].type = "refund"
    /\ \A p \in 1..Len(transactions) : transactions[p].amount >= 0

(***************************************************************************)
(* generateOrderId, src/unnamed/part_000 lines 281-293                     *)
(*                                                                         *)
(* A string is a sequence of one-character strings; the template literal   *)
(* `ORD${id++}` puts the decimal digits of id after "ORD".                 *)
(***************************************************************************)
DigitChar == <<"0", "1", "2", "3", "4", "5", "6", "7", "8", "9">>

\* The decimal digits of a natural number, as the template literal writes it.
RECURSIVE ToString(_)
ToString(n) ==
    IF n < 10 THEN <<DigitChar[n + 1]>>
    ELSE ToString(n \div 10) \o <<DigitChar[(n % 10) + 1]>>

\* yield `ORD${id++}`: the value yielded and the id the generator keeps.
yieldSameId(id) == [value |-> <<"O", "R", "D">> \o ToString(id), id |-> id]
yieldOrderId(id) == [value |-> <<"O", "R", "D">> \o ToString(id), id |-> id + 1]

\* const orderIdGenerator = generateOrderId();  the body has not started;
\* let id = 1 runs with the first next(), before anything is yielded.
generateOrderId(g) ==
    /\ generators[g].state = "none"
    /\ generators' = [generators EXCEPT ![g] = [state |-> "suspended", id |-> 1, out |-> <<>>]]
    /\ UNCHANGED notOrd

\* orderIdGenerator.next(): the loop while (true) runs to its yield.
OrdNext(g) ==
    /\ generators[g].state = "suspended"
    /\ Len(generators[g].out) < MaxOrders
    /\ LET y == yieldOrderId(generators[g].id) IN
       generators' = [generators EXCEPT
           ![g].id = y.id,
           ![g].out = Append(@, [value |-> y.value, done |-> FALSE])]
    /\ UNCHANGED notOrd

NextOrd == \E g \in 1..MaxGenerators : generateOrderId(g) \/ OrdNext(g)

SpecOrd == Init /\ [][NextOrd]_vars

\* C24: the k-th next() call of one generator yields "ORD" followed by k,
\* no call reports done, and any two IDs of one generator differ.
C24_OrderIdsUnique ==
    \A g \in 1..MaxGenerators :
        LET out == generators[g].out IN
        /\ \A k \in 1..Len(out) :
            /\ out[k].value = <<"O", "R", "D">> \o ToString(k)
            /\ out[k].done = FALSE
        /\ Len(out) >= 1 => out[1].value = <<"O", "R", "D", "1">>
        /\ Len(out) >= 2 => out[2].value = <<"O", "R", "D", "2">>
        /\ Len(out) >= 10 => out[10].value = <<"O", "R", "D", "1", "0">>
        /\ \A i, j \in 1..Len(out) : i # j => out[i].value # out[j].value

\* One generator has yielded IDs of one and of two digits while another has
\* yielded fewer.
C24_Witness ==
    \E g, h \in 1..MaxGenerators :
        /\ Len(generators[g].out) >= 10
        /\ generators[h].state = "suspended"
        /\ Len(generators[h].out) \in 1..3

(***************************************************************************)
(* productProxy, src/unnamed/part_000 lines 405-426                        *)
(***************************************************************************)
\* The property names assigned through the proxy: the two the target has
\* and one it does not have yet.
Properties == {"name", "price", "stock"}

\* The values assigned through the proxy.
Values ==
    {Num(-500), Num(-1), Num(0), Num(1), Num(1000), NaN, Undef,
     Str(""), Str("-5"), Str("free"), Str("Laptop")}

\* ToNumber, which `<` applies to an operand that is not a number.
ToNumber(v) ==
    CASE v.type = "number" -> v
      [] v.type = "undefined" -> NaN
      [] v.type = "string" ->
            CASE v.s = "" -> Num(0)
              [] v.s = "-5" -> Num(-5)
              [] OTHER -> NaN

\* value < 0
lessThanZero(v) == LET x == ToNumber(v) IN ~x.nan /\ x.n < 0

\* value >= 0
atLeastZero(v) == LET x == ToNumber(v) IN ~x.nan /\ x.n >= 0

\* if (property === 'price' && value < 0) throw new Error('Price cannot be negative')
rejectsNothing(property, value) == FALSE
rejects(property, value) == property = "price" /\ lessThanZero(value)

\* productProxy[property] = value: the set trap
ProxySet ==
    \E property \in Properties, value \in Values :
        /\ IF rejects(property, value)
           THEN /\ lastSet' = [property |-> property, value |-> value, threw |-> TRUE]
                /\ UNCHANGED product
           ELSE /\ product' = [product EXCEPT ![property] = value]
                /\ lastSet' = [property |-> property, value |-> value, threw |-> FALSE]
        /\ UNCHANGED notProxy

NextProxy == ProxySet

SpecProxy == Init /\ [][NextProxy]_vars

\* What one assignment through the proxy did, read from the state before
\* and after it.
ProxyStepOK ==
    lastSet' # lastSet \/ product' # product =>
        IF lastSet'.property = "price" /\ lessThanZero(lastSet'.value)
        THEN lastSet'.threw /\ product' = product
        ELSE /\ ~lastSet'.threw
             /\ product' = [product EXCEPT ![lastSet'.property] = lastSet'.value]

\* C25 as stated: after any sequence of assignments through the proxy the
\* price is non-negative.
C25_PriceNonNegative == atLeastZero(product["price"])

\* C25, amended: an assignment of a negative value to 'price' through the
\* proxy throws and leaves the target unchanged, every other assignment is
\* written to the target, and the price is never negative (price < 0 never
\* holds), though it can become a value that is not a number.
C25_PriceNeverNegative ==
    /\ [](~lessThanZero(product["price"]))
    /\ [][ProxyStepOK]_vars

\* The assignment of the snippet, productProxy.price = -500, has thrown and
\* the price is what it was.
C25_Witness ==
    /\ lastSet = [property |-> "price", value |-> Num(-500), threw |-> TRUE]
    /\ product["price"] = Num(1000)

(***************************************************************************)
(* Promise.allSettled snippet, src/unnamed/part_000 lines 728-735          *)
(*                                                                         *)
(* The script runs to completion, then the event loop takes the timer that *)
(* is due first (the one registered first among equals) and, after each    *)
(* callback, empties the queue of promise reaction jobs.  The snippet      *)
(* fixes the delays 1000, 1500, 2000 and the outcomes resolve, reject,     *)
(* resolve; the model also runs it with the other delays and outcomes.     *)
(***************************************************************************)
Delays == {1000, 1500, 2000}
Outcomes == {"resolve", "reject"}

\* What the snippet's three promises are settled with.
SettleValue == <<"Product 1", "Error fetching product 2", "Product 3">>
SnippetDelay == <<1000, 1500, 2000>>
SnippetOutcome == <<"resolve", "reject", "resolve">>

\* new Promise(... setTimeout(() => resolve(v) or reject(v), delay)): the
\* executor runs at once and registers the timer.
NewPromise(i) ==
    /\ asPc = <<"new1", "new2", "new3">>[i]
    /\ \E delay \in Delays, outcome \in Outcomes :
        /\ promises' = [promises EXCEPT ![i] =
              [state |-> "pending", outcome |-> outcome, delay |-> delay,
               value |-> SettleValue[i]]]
        /\ asTimers' = asTimers \cup {[due |-> asNow + delay, seq |-> i, promise |-> i]}
    /\ asPc' = <<"new2", "new3", "allSettled">>[i]
    /\ UNCHANGED <<asNow, settled, microtasks, asConsole>>
    /\ UNCHANGED notSettled

\* Promise.allSettled([...]).then(results => console.log(results)):
\* a reaction is attached to each of the three promises, and the logging
\* reaction to the promise returned.
AllSettled ==
    /\ asPc = "allSettled"
    /\ settled' = [settled EXCEPT !.state = "pending"]
    /\ asPc' = "idle"
    /\ UNCHANGED <<asNow, asTimers, promises, microtasks, asConsole>>
    /\ UNCHANGED notSettled

\* The timer to run next: the earliest due, the first registered among equals.
IsNextTimer(t) ==
    \A u \in asTimers : t.due < u.due \/ (t.due = u.due /\ t.seq <= u.seq)

\* A timer callback: resolve(v) or reject(v) settles its promise, which
\* queues the reaction allSettled attached to it.
TimerFire ==
    /\ asPc = "idle"
    /\ microtasks = <<>>
    /\ \E t \in asTimers :
        /\ IsNextTimer(t)
        /\ asNow' = t.due
        /\ asTimers' = asTimers \ {t}
        /\ promises' = [promises EXCEPT ![t.promise].state =
              IF promises[t.promise].outcome = "resolve" THEN "fulfilled" ELSE "rejected"]
        /\ microtasks' = Append(microtasks, [job |-> "element", promise |-> t.promise])
    /\ UNCHANGED <<asPc, settled, asConsole>>
    /\ UNCHANGED notSettled

\* allSettled stores the result of promise i at index i of its results.
recordInSettleOrder(results, i, entry) ==
    LET free == {k \in 1..3 : results[k].status = ""}
        first == CHOOSE k \in free : \A l \in free : k <= l
    IN  [results EXCEPT ![first] = entry]
recordResult(results, i, entry) == [results EXCEPT ![i] = entry]

\* One promise reaction job.  The reaction of an element records
\* {status, value | reason} and, when it was the last one outstanding,
\* fulfils the promise of allSettled, which queues the logging reaction.
\* The logging reaction is console.log(results).
Microtask ==
    /\ microtasks # <<>>
    /\ LET job == Head(microtasks) IN
       IF job.job = "element"
       THEN LET i == job.promise
                entry == [status |-> promises[i].state, value |-> promises[i].value]
                last == settled.remaining = 1
            IN  /\ settled' = [state |-> IF last THEN "fulfilled" ELSE settled.state,
                               remaining |-> settled.remaining - 1,
                               results |-> recordResult(settled.results, i, entry)]
                /\ microtasks' = IF last THEN Append(Tail(microtasks), [job |-> "log", promise |-> 0])
                                 ELSE Tail(microtasks)
                /\ UNCHANGED asConsole
       ELSE /\ asConsole' = Append(asConsole, [time |-> asNow, results |-> settled.results])
            /\ microtasks' = Tail(microtasks)
            /\ UNCHANGED settled
    /\ UNCHANGED <<asPc, asNow, asTimers, promises>>
    /\ UNCHANGED notSettled

NextSettled == (\E i \in 1..3 : NewPromise(i)) \/ AllSettled \/ TimerFire \/ Microtask

SpecSettled == Init /\ [][NextSettled]_vars

\* The snippet as written: delays 1000, 1500, 2000; resolve, reject, resolve.
IsSnippetRun ==
    \A i \in 1..3 :
        /\ promises[i].delay = SnippetDelay[i]
        /\ promises[i].outcome = SnippetOutcome[i]

AllThreeSettled == \A i \in 1..3 : promises[i].state \in {"fulfilled", "rejected"}

LatestDelay ==
    CHOOSE d \in {promises[i].delay : i \in 1..3} : \A i \in 1..3 : promises[i].delay <= d

C26_Logged ==
    /\ AllThreeSettled
    /\ asConsole[1].time = LatestDelay
    /\ \A i \in 1..3 :
        asConsole[1].results[i] =
            [status |-> IF promises[i].outcome = "resolve" THEN "fulfilled" ELSE "rejected",
             value |-> SettleValue[i]]
    /\ IsSnippetRun =>
        /\ asConsole[1].time = 2000
        /\ asConsole[1].results =
              << [status |-> "fulfilled", value |-> "Product 1"],
                 [status |-> "rejected", value |-> "Error fetching product 2"],
                 [status |-> "fulfilled", value |-> "Product 3"] >>

\* C26: the promise of Promise.allSettled resolves, and the results are
\* logged, exactly once and only after all three promises have settled; a
\* rejection neither prevents the log nor makes it earlier (it is written
\* when the last timer has fired); the results are in input order.
C26_AllSettledLogsOnce ==
    /\ [] /\ Len(asConsole) <= 1
          /\ settled.state = "fulfilled" => AllThreeSettled
          /\ Len(asConsole) = 1 => C26_Logged
          /\ (asPc = "idle" /\ asTimers = {} /\ microtasks = <<>>) => Len(asConsole) = 1
    /\ [][settled.state = "fulfilled" => settled' = settled]_vars

\* The snippet as written has logged its results.
C26_Witness == IsSnippetRun /\ asPc = "idle" /\ Len(asConsole) = 1

(***************************************************************************)
(* Deduplication of an array: with reduce, src/unnamed/part_000 lines      *)
(* 76-85, and with a Set, src/es6-features-guide.md lines 711-714          *)
(***************************************************************************)
\* const numbers = [1,3,4,5,6,4,6,9,8]   (part_000 line 77)
ReduceNumbers == <<1, 3, 4, 5, 6, 4, 6, 9, 8>>
\* const numbers = [1, 2, 2, 3, 4, 4, 5]  (es6-features-guide.md line 712)
SetNumbers == <<1, 2, 2, 3, 4, 4, 5>>

DedupInputs ==
    {ReduceNumbers, SetNumbers} \cup UNION {[1..n -> 1..MaxValue] : n \in 0..MaxLen}

\* accumulate.includes(x)
includesLast(accumulate, x) == accumulate # <<>> /\ accumulate[Len(accumulate)] = x
includes(accumulate, x) == \E i \in 1..Len(accumulate) : accumulate[i] = x

\* The callback given to reduce.
callback(accumulate, x) ==
    IF ~includes(accumulate, x) THEN Append(accumulate, x) ELSE accumulate

\* array.reduce(callback, accumulate)
RECURSIVE reduce(_, _)
reduce(array, accumulate) ==
    IF array = <<>> THEN accumulate
    ELSE reduce(Tail(array), callback(accumulate, Head(array)))

\* A Set: the values it has and the order they were added in.
EmptySet == [has |-> {}, order |-> <<>>]

\* set.add(x)
setAdd(set, x) ==
    IF x \in set.has THEN set
    ELSE [has |-> set.has \cup {x}, order |-> Append(set.order, x)]

\* new Set(array)
RECURSIVE newSet(_, _)
newSet(array, set) ==
    IF array = <<>> THEN set ELSE newSet(Tail(array), setAdd(set, Head(array)))

\* [...set]
spread(set) == set.order

\* const numbers = [...]
DedupInput ==
    /\ dedupDone = {}
    /\ \E array \in DedupInputs : numbers' = array
    /\ dedupDone' = {"input"}
    /\ UNCHANGED <<nonduplicateNumber, uniqueArray, again>>
    /\ UNCHANGED notDedup

\* const nonduplicateNumber = numbers.reduce(..., [])
DedupReduce ==
    /\ "input" \in dedupDone /\ "reduce" \notin dedupDone
    /\ nonduplicateNumber' = reduce(numbers, <<>>)
    /\ dedupDone' = dedupDone \cup {"reduce"}
    /\ UNCHANGED <<numbers, uniqueArray, again>>
    /\ UNCHANGED notDedup

\* const uniqueArray = [...new Set(numbers)]
DedupSet ==
    /\ "input" \in dedupDone /\ "set" \notin dedupDone
    /\ uniqueArray' = spread(newSet(numbers, EmptySet))
    /\ dedupDone' = dedupDone \cup {"set"}
    /\ UNCHANGED <<numbers, nonduplicateNumber, again>>
    /\ UNCHANGED notDedup

\* The reduce-based deduplication applied to its own result.
DedupAgain ==
    /\ "reduce" \in dedupDone /\ "again" \notin dedupDone
    /\ again' = reduce(nonduplicateNumber, <<>>)
    /\ dedupDone' = dedupDone \cup {"again"}
    /\ UNCHANGED <<numbers, nonduplicateNumber, uniqueArray>>
    /\ UNCHANGED notDedup

NextDedup == DedupInput \/ DedupReduce \/ DedupSet \/ DedupAgain

SpecDedup == Init /\ [][NextDedup]_vars

\* The index of the first occurrence of x in array.
FirstIndex(array, x) ==
    CHOOSE i \in 1..Len(array) : array[i] = x /\ \A j \in 1..(i - 1) : array[j] # x

\* C27: the reduce-based deduplication returns every value of the input
\* exactly once, in the order of first occurrence; it returns the same array
\* as [...new Set(numbers)]; applied to its own result it returns that result.
C27_DedupSameAsSet ==
    /\ "reduce" \in dedupDone =>
        /\ \A i \in 1..Len(numbers) :
              Cardinality({k \in 1..Len(nonduplicateNumber) :
                              nonduplicateNumber[k] = numbers[i]}) = 1
        /\ \A k \in 1..Len(nonduplicateNumber) :
              \E i \in 1..Len(numbers) : numbers[i] = nonduplicateNumber[k]
        /\ \A k, l \in 1..Len(nonduplicateNumber) :
              k < l => FirstIndex(numbers, nonduplicateNumber[k])
                          < FirstIndex(numbers, nonduplicateNumber[l])
        /\ numbers = ReduceNumbers => nonduplicateNumber = <<1, 3, 4, 5, 6, 9, 8>>
    /\ {"reduce", "set"} \subseteq dedupDone => nonduplicateNumber = uniqueArray
    /\ "again" \in dedupDone => again = nonduplicateNumber

\* Both deduplications and the second application have run on an array in
\* which a value comes back after another value.
C27_Witness ==
    /\ dedupDone = {"input", "reduce", "set", "again"}
    /\ \E i, j, k \in 1..Len(numbers) :
          i < j /\ j < k /\ numbers[i] = numbers[k] /\ numbers[i] # numbers[j]

(***************************************************************************)
(* Custom iterators: customIterable, src/es6-features-guide.md lines       *)
(* 506-525, and catalog, src/unnamed/part_000 lines 334-359                *)
(*                                                                         *)
(* The catalog block as written lacks a comma between its second and third *)
(* product (lines 338-339) and does not parse.  Its [Symbol.iterator]      *)
(* method (lines 341-353) is modelled as it would run on an array.  A      *)
(* product is written as its price.                                        *)
(***************************************************************************)
\* data: [1, 2, 3, 4]
CustomIterableData == <<1, 2, 3, 4>>
\* products: Laptop 1000, Phone 500, Laptop 2000
CatalogProducts == <<1000, 500, 2000>>

\* The arrays the iterables are defined with: the two of the sources, an
\* empty one and one with a repeated element.
ArrayInputs == {CustomIterableData, CatalogProducts, <<>>, <<2, 2>>}

\* const customIterable = {data: ...};  const catalog = {products: ...}
DefineIterables ==
    /\ \A it \in 1..MaxIterators : iterators[it].state = "none"
    /\ backing = [customIterable |-> <<>>, catalog |-> <<>>]
    /\ \E data \in ArrayInputs, products \in ArrayInputs :
        /\ data # <<>> \/ products # <<>>
        /\ backing' = [customIterable |-> data, catalog |-> products]
    /\ UNCHANGED iterators
    /\ UNCHANGED notIter

\* let index = 0, in the body of [Symbol.iterator]()
startIndexShared(its) ==
    LET used == {its[k].index : k \in DOMAIN its} IN
    CHOOSE n \in used : \A l \in used : l <= n
startIndex(its) == 0

\* iterable[Symbol.iterator]()
SymbolIterator(it, iterable) ==
    /\ backing # [customIterable |-> <<>>, catalog |-> <<>>]
    /\ iterators[it].state = "none"
    /\ iterators' = [iterators EXCEPT ![it] =
          [state |-> "live", of |-> iterable, index |-> startIndex(iterators), out |-> <<>>]]
    /\ UNCHANGED backing
    /\ UNCHANGED notIter

\* next(): if (index < array.length) return {value: array[index++], done: false}
\* else return {done: true}.  The value of a result is <<v>>, or <<>> when
\* the result has no value.
next(array, index) ==
    IF index < Len(array)
    THEN [index |-> index + 1, result |-> [value |-> <<array[index + 1]>>, done |-> FALSE]]
    ELSE [index |-> index, result |-> [value |-> <<>>, done |-> TRUE]]

\* iterator.next()
IteratorNext(it) ==
    /\ iterators[it].state = "live"
    /\ Len(iterators[it].out) < Len(backing[iterators[it].of]) + 1 + MaxNextAfterDone
    /\ LET r == next(backing[iterators[it].of], iterators[it].index) IN
       iterators' = [iterators EXCEPT ![it].index = r.index,
                                      ![it].out = Append(@, r.result)]
    /\ UNCHANGED backing
    /\ UNCHANGED notIter

NextIter ==
    \/ DefineIterables
    \/ \E it \in 1..MaxIterators :
        \/ \E iterable \in {"customIterable", "catalog"} : SymbolIterator(it, iterable)
        \/ IteratorNext(it)

SpecIter == Init /\ [][NextIter]_vars

\* C28: an iterator yields the elements of its backing array in index
\* order, each once, and then reports done; after that every next() reports
\* done again; each iterator starts at index 0 whatever iterators exist.
C28_IteratorsInIndexOrder ==
    \A it \in 1..MaxIterators :
        iterators[it].state = "live" =>
            LET array == backing[iterators[it].of]
                out == iterators[it].out
            IN  \A k \in 1..Len(out) :
                    IF k <= Len(array)
                    THEN out[k] = [value |-> <<array[k]>>, done |-> FALSE]
                    ELSE out[k] = [value |-> <<>>, done |-> TRUE]

\* An iterator of customIterable.data = [1, 2, 3, 4] has reported done
\* twice, and another iterator of the same object, still live, has yielded
\* its first element only.
C28_Witness ==
    /\ backing["customIterable"] = CustomIterableData
    /\ \E g, h \in 1..MaxIterators :
        /\ g # h
        /\ iterators[g].of = "customIterable" /\ iterators[h].of = "customIterable"
        /\ Len(iterators[g].out) = 6
        /\ iterators[h].out = <<[value |-> <<1>>, done |-> FALSE]>>

(***************************************************************************)
(* getPackageCost, src/example.js lines 1-12                               *)
(*                                                                         *)
(* A distance is a number of kilometres; the model passes whole numbers.   *)
(***************************************************************************)
Distances == (0 - MaxBelowZero)..MaxDistance

getPackageCostOffByOne(d) ==
    IF d < 1000 THEN 500
    ELSE IF d <= 2000 THEN 1000
    ELSE IF d < 3000 THEN 1500
    ELSE 2000
getPackageCost(d) ==
    IF d < 1000 THEN 500
    ELSE IF d < 2000 THEN 1000
    ELSE IF d < 3000 THEN 1500
    ELSE 2000

\* const packageCost = getPackageCost(distance);
CallGetPackageCost ==
    /\ costCalls = 0
    /\ \E d \in Distances :
        /\ distance' = d
        /\ packageCost' = getPackageCost(d)
    /\ costCalls' = 1
    /\ UNCHANGED notCost

NextCost == CallGetPackageCost

SpecCost == Init /\ [][NextCost]_vars

\* C29: the cost is 500 below 1000, 1000 from 1000 to below 2000, 1500 from
\* 2000 to below 3000 and 2000 from 3000 on; it is always one of these four
\* values and never decreases when the distance increases.
C29_PackageCostSteps ==
    costCalls = 1 =>
        /\ distance < 1000 => packageCost = 500
        /\ (1000 <= distance /\ distance < 2000) => packageCost = 1000
        /\ (2000 <= distance /\ distance < 3000) => packageCost = 1500
        /\ distance >= 3000 => packageCost = 2000
        /\ packageCost \in {500, 1000, 1500, 2000}
        /\ \A e \in Distances : e <= distance => getPackageCost(e) <= packageCost

\* The call was made at the threshold 2000.
C29_Witness == costCalls = 1 /\ distance = 2000 /\ packageCost = 1500

(***************************************************************************)
(* DataStorage, src/typescript-notes.md lines 504-518                      *)
(*                                                                         *)
(* An array is an object: the model keeps the arrays in a heap and passes  *)
(* references, so that two names for one array and two arrays with the     *)
(* same elements are different things.                                     *)
(***************************************************************************)
\* The items stored: textStorage stores strings.
Items == {"a", "b"}

\* private data: T[] = []  -- the reference of the array of this.data
data == 0

\* addItem(item) { this.data.push(item); }
addItem ==
    /\ Len(addedItems) < MaxItems
    /\ \E item \in Items :
        /\ heap' = [heap EXCEPT ![data] = Append(@, item)]
        /\ addedItems' = Append(addedItems, item)
    /\ UNCHANGED <<getItemsCalls, returned, lastItems, changed, changedAtGet>>
    /\ UNCHANGED notStorage

\* return [...this.data]: a new array with the elements of this.data.  Given
\* the heap and the reference a new array gets, the reference returned and
\* the heap afterwards.
spreadAlias(h, fresh) == [ref |-> data, heap |-> h]
spreadData(h, fresh) == [ref |-> fresh, heap |-> [h EXCEPT ![fresh] = h[data]]]

\* getItems()
getItems ==
    /\ getItemsCalls < MaxGetItems
    /\ LET r == spreadData(heap, getItemsCalls + 1) IN
        /\ heap' = r.heap
        /\ returned' = returned \cup {r.ref}
        /\ lastItems' = r.heap[r.ref]
    /\ getItemsCalls' = getItemsCalls + 1
    /\ changedAtGet' = changed
    /\ UNCHANGED <<addedItems, changed>>
    /\ UNCHANGED notStorage

\* The caller changes an array it got from getItems: push, pop, or an
\* assignment to an element.
ChangeReturned ==
    /\ \E ref \in returned :
        /\ changed' = changed \cup {ref}
        /\ \/ /\ Len(heap[ref]) < MaxItems
              /\ \E item \in Items : heap' = [heap EXCEPT ![ref] = Append(@, item)]
           \/ /\ heap[ref] # <<>>
              /\ heap' = [heap EXCEPT ![ref] = SubSeq(@, 1, Len(@) - 1)]
           \/ \E i \in 1..Len(heap[ref]), item \in Items :
                 /\ heap[ref][i] # item
                 /\ heap' = [heap EXCEPT ![ref][i] = item]
    /\ UNCHANGED <<getItemsCalls, returned, lastItems, changedAtGet, addedItems>>
    /\ UNCHANGED notStorage

NextStorage == addItem \/ getItems \/ ChangeReturned

SpecStorage == Init /\ [][NextStorage]_vars

\* C30: the items are kept in insertion order, getItems returns them in the
\* order they were added, and changing an array that getItems returned does
\* not change what a later getItems call returns.
C30_GetItemsReturnsCopy ==
    /\ [](heap[data] = addedItems)
    /\ [][getItemsCalls' # getItemsCalls => lastItems' = addedItems]_vars
    /\ [][(addedItems' = addedItems /\ getItemsCalls' = getItemsCalls) =>
              heap'[data] = heap[data]]_vars

\* An array that getItems returned has been changed, and a later getItems
\* call has returned the items added.
C30_Witness ==
    /\ getItemsCalls = 2
    /\ Len(addedItems) >= 2
    /\ changedAtGet # {}
    /\ lastItems = addedItems
    /\ \E ref \in changedAtGet : heap[ref] # addedItems
====
